---- MODULE Spec2Model ----
(***************************************************************************)
(* A model of the Lox tree-walking interpreter of src/lox: the AST nodes   *)
(* and their eval / validate_self methods (ast.py), the runtime objects    *)
(* LoxFunction, LoxClass, LoxInstance and the primitive operators          *)
(* (runtime.py).  The scope chain Ctx (lox/ctx.py), the tree traversal     *)
(* that calls validate_self (lox/node.py) and the driver that validates    *)
(* and then evaluates a program are modelled from the specification of    *)
(* the interpreter (sections 4.2, 4.5 and 6).                              *)
(*                                                                         *)
(* Python objects are cells of the sequences envs, fns, classes and insts; *)
(* a reference is the index of the cell, so object identity is equality    *)
(* of indexes.  Lox numbers are modelled by integers.                      *)
(***************************************************************************)
EXTENDS Integers, Sequences, FiniteSets, TLC

VARIABLES
    prog,      \* Program.stmts: the top-level statements of the program
    phase,     \* "validate", "run", "done", "semantic_error", "runtime_error"
    pc,        \* index of the next statement of Program.eval's loop
    envs,      \* the Ctx nodes created so far; envs[1] is the global scope
    fns,       \* the LoxFunction objects created so far
    classes,   \* the LoxClass objects created so far
    insts,     \* the LoxInstance objects created so far
    out,       \* the lines printed so far
    exc        \* the exception that ended the run, "none" otherwise

vars == <<prog, phase, pc, envs, fns, classes, insts, out, exc>>

(***************************************************************************)
(* Bounds of the model.                                                    *)
(***************************************************************************)
\* evaluation steps (loop iterations and calls) one top-level statement may take
MaxFuel == 12
\* length of the nondeterministic tail of statements of a program family
MaxTail == 3

(***************************************************************************)
(* Values.                                                                 *)
(***************************************************************************)
Nil == [t |-> "nil"]
BoolV(b) == [t |-> "bool", b |-> b]
NumV(n) == [t |-> "num", n |-> n]
StrV(x) == [t |-> "str", s |-> x]
FnV(id) == [t |-> "fn", id |-> id]
ClassV(id) == [t |-> "class", id |-> id]
InstV(id) == [t |-> "inst", id |-> id]

EmptyMap == <<>>

(***************************************************************************)
(* AST nodes (the dataclasses of ast.py).  NoNode stands for Python's None *)
(* in an optional child (If.else_branch, Class.superclass).                *)
(***************************************************************************)
NoNode == [k |-> "None"]
Literal(value) == [k |-> "Literal", value |-> value]
Var(name) == [k |-> "Var", name |-> name]
BinOp(left, right, op) == [k |-> "BinOp", left |-> left, right |-> right, op |-> op]
And(left, right) == [k |-> "And", left |-> left, right |-> right]
Or(left, right) == [k |-> "Or", left |-> left, right |-> right]
UnaryOp(op, value) == [k |-> "UnaryOp", op |-> op, value |-> value]
Call(func, args) == [k |-> "Call", func |-> func, args |-> args]
Getattr(obj, attr) == [k |-> "Getattr", obj |-> obj, attr |-> attr]
Setattr(obj, attr, value) == [k |-> "Setattr", obj |-> obj, attr |-> attr, value |-> value]
This == [k |-> "This"]
Super(attr) == [k |-> "Super", attr |-> attr]
Return(expr) == [k |-> "Return", expr |-> expr]
VarDef(name, value) == [k |-> "VarDef", name |-> name, value |-> value]
If(cond, then_branch, else_branch) ==
    [k |-> "If", cond |-> cond, then_branch |-> then_branch, else_branch |-> else_branch]
While(cond, body) == [k |-> "While", cond |-> cond, body |-> body]
Block(stmts) == [k |-> "Block", stmts |-> stmts]
Function(name, params, body) ==
    [k |-> "Function", name |-> name, params |-> params, body |-> body]
Class(name, superclass, methods) ==
    [k |-> "Class", name |-> name, superclass |-> superclass, methods |-> methods]
Assign(name, value) == [k |-> "Assign", name |-> name, value |-> value]
PrintStmt(expr) == [k |-> "Print", expr |-> expr]

(***************************************************************************)
(* The interpreter's store, threaded through evaluation: the objects       *)
(* created so far, the output, and the steps left.  An evaluation returns  *)
(* a result [s, v, sig]: sig is "ok", "return" (a LoxReturn in flight,     *)
(* carrying v) or the name of the Python exception in flight.              *)
(***************************************************************************)
Ok(s, v) == [s |-> s, v |-> v, sig |-> "ok"]
Raise(s, e) == [s |-> s, v |-> Nil, sig |-> e]

(***************************************************************************)
(* Ctx: a chain of scopes.  ctx is the index of a node of s.envs, 0 the    *)
(* absent parent of the global scope.                                      *)
(***************************************************************************)
CtxNew(s) == Len(s.envs) + 1

CtxPush(s, ctx, scope) ==
    [s EXCEPT !.envs = Append(@, [scope |-> scope, parent |-> ctx])]

RECURSIVE CtxFind(_, _, _)
CtxFind(s, ctx, name) ==
    IF ctx = 0 THEN 0
    ELSE IF name \in DOMAIN s.envs[ctx].scope THEN ctx
    ELSE CtxFind(s, s.envs[ctx].parent, name)

CtxContains(s, ctx, name) == CtxFind(s, ctx, name) # 0

CtxGetItem(s, ctx, name) == s.envs[CtxFind(s, ctx, name)].scope[name]

CtxVarDef(s, ctx, name, v) ==
    [s EXCEPT !.envs[ctx].scope = (name :> v) @@ @]

CtxAssign(s, ctx, name, v) ==
    [s EXCEPT !.envs[CtxFind(s, ctx, name)].scope[name] = v]

(***************************************************************************)
(* runtime.py: primitive operators.                                        *)
(***************************************************************************)
truthy(value) == ~(value = Nil \/ value = BoolV(FALSE))

\* Python's own truth test of a Lox value (bool(value)): None, False, 0.0
\* and "" are false; LoxFunction, LoxClass and LoxInstance define neither
\* __bool__ nor __len__ and are true.
PyBool(value) ==
    CASE value.t = "nil" -> FALSE
      [] value.t = "bool" -> value.b
      [] value.t = "num" -> value.n # 0
      [] value.t = "str" -> value.s # ""
      [] OTHER -> TRUE

\* LoxFunction is a dataclass: == compares the fields name, args, body, ctx
\* and is_bound_method.
LoxFunctionEq(s, i, j) ==
    /\ s.fns[i].name = s.fns[j].name
    /\ s.fns[i].args = s.fns[j].args
    /\ s.fns[i].body = s.fns[j].body
    /\ s.fns[i].ctx = s.fns[j].ctx
    /\ s.fns[i].is_bound_method = s.fns[j].is_bound_method

\* LoxClass is a dataclass: == compares the fields name, methods and base.
RECURSIVE LoxClassEq(_, _, _)
LoxClassEq(s, i, j) ==
    /\ s.classes[i].name = s.classes[j].name
    /\ DOMAIN s.classes[i].methods = DOMAIN s.classes[j].methods
    /\ \A m \in DOMAIN s.classes[i].methods :
          LoxFunctionEq(s, s.classes[i].methods[m], s.classes[j].methods[m])
    /\ (s.classes[i].base = 0) = (s.classes[j].base = 0)
    /\ s.classes[i].base # 0 => LoxClassEq(s, s.classes[i].base, s.classes[j].base)

\* a == b of two Python objects of the same type
PyEq(s, a, b) ==
    CASE a.t = "fn" -> a.id = b.id \/ LoxFunctionEq(s, a.id, b.id)
      [] a.t = "class" -> a.id = b.id \/ LoxClassEq(s, a.id, b.id)
      [] OTHER -> a = b

lox_eq(s, a, b) ==
    IF a.t # b.t THEN FALSE ELSE PyEq(s, a, b)

lox_ne(s, a, b) == ~lox_eq(s, a, b)

lox_add(s, a, b) ==
    IF a.t = "num" /\ b.t = "num" THEN Ok(s, NumV(a.n + b.n))
    ELSE IF a.t = "str" /\ b.t = "str" THEN Ok(s, StrV(a.s \o b.s))
    ELSE Raise(s, "LoxError")

lox_sub(s, a, b) ==
    IF a.t = "num" /\ b.t = "num" THEN Ok(s, NumV(a.n - b.n)) ELSE Raise(s, "LoxError")

lox_mul(s, a, b) ==
    IF a.t = "num" /\ b.t = "num" THEN Ok(s, NumV(a.n * b.n)) ELSE Raise(s, "LoxError")

lox_gt(s, a, b) ==
    IF a.t = "num" /\ b.t = "num" THEN Ok(s, BoolV(a.n > b.n)) ELSE Raise(s, "LoxError")

lox_ge(s, a, b) ==
    IF a.t = "num" /\ b.t = "num" THEN Ok(s, BoolV(a.n >= b.n)) ELSE Raise(s, "LoxError")

lox_lt(s, a, b) ==
    IF a.t = "num" /\ b.t = "num" THEN Ok(s, BoolV(a.n < b.n)) ELSE Raise(s, "LoxError")

lox_le(s, a, b) ==
    IF a.t = "num" /\ b.t = "num" THEN Ok(s, BoolV(a.n <= b.n)) ELSE Raise(s, "LoxError")

lox_neg(s, a) ==
    IF a.t = "num" THEN Ok(s, NumV(0 - a.n)) ELSE Raise(s, "LoxError")

lox_not(a) == ~truthy(a)

show(s, value) ==
    CASE value.t = "nil" -> "nil"
      [] value.t = "bool" -> IF value.b THEN "true" ELSE "false"
      [] value.t = "num" -> ToString(value.n)
      [] value.t = "fn" -> "<fn " \o s.fns[value.id].name \o ">"
      [] value.t = "inst" -> s.classes[s.insts[value.id].klass].name \o " instance"
      [] value.t = "class" -> s.classes[value.id].name
      [] value.t = "str" -> value.s

lox_print(s, value) == [s EXCEPT !.out = Append(@, show(s, value))]

(***************************************************************************)
(* runtime.py: LoxClass.get_method, LoxFunction.bind.                      *)
(***************************************************************************)
RECURSIVE get_methodBaseFirst(_, _, _)
\* LoxClass.get_method asking the base class before the class's own methods
get_methodBaseFirst(s, cid, name) ==
    LET inherited == IF s.classes[cid].base # 0
                     THEN get_methodBaseFirst(s, s.classes[cid].base, name) ELSE 0
    IN IF inherited # 0 THEN inherited
       ELSE IF name \in DOMAIN s.classes[cid].methods THEN s.classes[cid].methods[name]
       ELSE 0

\* The method named name of class cid or of its nearest base that has one;
\* 0 stands for None.  (str(name).strip() leaves an identifier unchanged.)
RECURSIVE get_method(_, _, _)
get_method(s, cid, name) ==
    IF name \in DOMAIN s.classes[cid].methods THEN s.classes[cid].methods[name]
    ELSE IF s.classes[cid].base # 0 THEN get_method(s, s.classes[cid].base, name)
    ELSE 0

NewFn(name, args, body, ctx, bound) ==
    [name |-> name, args |-> args, body |-> body, ctx |-> ctx,
     is_bound_method |-> bound, attrs |-> EmptyMap]

\* A new LoxFunction whose ctx is a new scope {'this': obj} under the
\* method's ctx; the result's v is the new function.
bind(s, fid, obj) ==
    LET f == s.fns[fid]
        s1 == CtxPush(s, f.ctx, "this" :> obj)
        s2 == [s1 EXCEPT !.fns = Append(@, NewFn(f.name, f.args, f.body, CtxNew(s), TRUE))]
    IN Ok(s2, FnV(Len(s2.fns)))

(***************************************************************************)
(* ast.py: the eval methods.  Eval dispatches on the node's class.         *)
(***************************************************************************)
RECURSIVE Eval(_, _, _)
RECURSIVE EvalStmts(_, _, _)
RECURSIVE EvalArgs(_, _, _, _)
RECURSIVE WhileEval(_, _, _)
RECURSIVE LoxFunctionCall(_, _, _)
RECURSIVE LoxClassCall(_, _, _)
RECURSIVE EvalMethods(_, _, _, _)

\* for stmt in stmts: stmt.eval(ctx), ended by the first exception
EvalStmts(stmts, ctx, s) ==
    IF stmts = <<>> THEN Ok(s, Nil)
    ELSE LET r == Eval(Head(stmts), ctx, s)
         IN IF r.sig # "ok" THEN r ELSE EvalStmts(Tail(stmts), ctx, r.s)

\* [arg.eval(ctx) for arg in args]: the result's v is the list of values
EvalArgs(args, ctx, s, acc) ==
    IF args = <<>> THEN Ok(s, acc)
    ELSE LET r == Eval(Head(args), ctx, s)
         IN IF r.sig # "ok" THEN r ELSE EvalArgs(Tail(args), ctx, r.s, Append(acc, r.v))

BinOpApply(op, s, a, b) ==
    CASE op = "+" -> lox_add(s, a, b)
      [] op = "-" -> lox_sub(s, a, b)
      [] op = "*" -> lox_mul(s, a, b)
      [] op = "==" -> Ok(s, BoolV(lox_eq(s, a, b)))
      [] op = "!=" -> Ok(s, BoolV(lox_ne(s, a, b)))
      [] op = ">" -> lox_gt(s, a, b)
      [] op = ">=" -> lox_ge(s, a, b)
      [] op = "<" -> lox_lt(s, a, b)
      [] op = "<=" -> lox_le(s, a, b)
      [] OTHER -> Raise(s, "RuntimeError")

\* BinOp.eval evaluating the right operand first
BinOpEvalRightFirst(node, ctx, s) ==
    LET r == Eval(node.right, ctx, s)
        l == Eval(node.left, ctx, r.s)
    IN IF r.sig # "ok" THEN r
       ELSE IF l.sig # "ok" THEN l
       ELSE BinOpApply(node.op, l.s, l.v, r.v)

BinOpEval(node, ctx, s) ==
    LET l == Eval(node.left, ctx, s)
        r == Eval(node.right, ctx, l.s)
    IN IF l.sig # "ok" THEN l
       ELSE IF r.sig # "ok" THEN r
       ELSE BinOpApply(node.op, r.s, l.v, r.v)

VarEval(node, ctx, s) ==
    IF CtxContains(s, ctx, node.name) THEN Ok(s, CtxGetItem(s, ctx, node.name))
    ELSE Raise(s, "UndefinedVariable")

LiteralEval(node, ctx, s) == Ok(s, node.value)

\* And.eval testing the left value with Python's truth value instead of
\* truthy
AndEvalPyBool(node, ctx, s) ==
    LET l == Eval(node.left, ctx, s)
    IN IF l.sig # "ok" THEN l
       ELSE IF ~PyBool(l.v) THEN l
       ELSE Eval(node.right, ctx, l.s)

AndEval(node, ctx, s) ==
    LET l == Eval(node.left, ctx, s)
    IN IF l.sig # "ok" THEN l
       ELSE IF ~truthy(l.v) THEN l
       ELSE Eval(node.right, ctx, l.s)

OrEval(node, ctx, s) ==
    LET l == Eval(node.left, ctx, s)
    IN IF l.sig # "ok" THEN l
       ELSE IF truthy(l.v) THEN l
       ELSE Eval(node.right, ctx, l.s)

UnaryOpEval(node, ctx, s) ==
    LET v == Eval(node.value, ctx, s)
    IN IF v.sig # "ok" THEN v
       ELSE IF node.op = "-" THEN lox_neg(v.s, v.v)
       ELSE IF node.op = "!" THEN Ok(v.s, BoolV(lox_not(v.v)))
       ELSE Raise(v.s, "RuntimeError")

\* The call of func_value: LoxFunction and LoxClass define __call__; any
\* other value is not callable.
CallValue(f, args, s) ==
    CASE f.t = "fn" -> LoxFunctionCall(f.id, args, s)
      [] f.t = "class" -> LoxClassCall(f.id, args, s)
      [] OTHER -> Raise(s, "TypeError")

CallEval(node, ctx, s) ==
    LET f == Eval(node.func, ctx, s)
        a == EvalArgs(node.args, ctx, f.s, <<>>)
    IN IF f.sig # "ok" THEN f
       ELSE IF a.sig # "ok" THEN a
       ELSE CallValue(f.v, a.v, a.s)

\* LoxInstance.get binding a function found among the fields to the
\* instance it is read from
LoxInstanceGetRebind(s, iid, name) ==
    LET method == get_method(s, s.insts[iid].klass, name)
    IN IF name \in DOMAIN s.insts[iid].fields
       THEN IF s.insts[iid].fields[name].t = "fn"
            THEN bind(s, s.insts[iid].fields[name].id, InstV(iid))
            ELSE Ok(s, s.insts[iid].fields[name])
       ELSE IF method # 0 THEN bind(s, method, InstV(iid))
       ELSE Raise(s, "AttributeError")

\* LoxInstance.get
LoxInstanceGet(s, iid, name) ==
    LET method == get_method(s, s.insts[iid].klass, name)
    IN IF name \in DOMAIN s.insts[iid].fields THEN Ok(s, s.insts[iid].fields[name])
       ELSE IF method # 0 THEN bind(s, method, InstV(iid))
       ELSE Raise(s, "AttributeError")

\* LoxInstance.set with one fields dictionary shared by the instances of a
\* class
LoxInstanceSetShared(s, iid, name, value) ==
    [s EXCEPT !.insts =
        [k \in DOMAIN s.insts |->
            IF s.insts[k].klass = s.insts[iid].klass
            THEN [s.insts[k] EXCEPT !.fields = (name :> value) @@ @]
            ELSE s.insts[k]]]

\* LoxInstance.set
LoxInstanceSet(s, iid, name, value) ==
    [s EXCEPT !.insts[iid].fields = (name :> value) @@ @]

\* Python's getattr(obj, attr) of a value that is no LoxInstance.  Of the
\* dataclass fields only name is read by the programs of the model; attr is
\* never the name of an attribute of Python's None, bool, float or str.
PyGetattr(s, obj, attr) ==
    CASE obj.t = "fn" ->
            IF attr = "name" THEN Ok(s, StrV(s.fns[obj.id].name))
            ELSE IF attr \in DOMAIN s.fns[obj.id].attrs THEN Ok(s, s.fns[obj.id].attrs[attr])
            ELSE Raise(s, "AttributeError")
      [] obj.t = "class" ->
            IF attr = "name" THEN Ok(s, StrV(s.classes[obj.id].name))
            ELSE IF attr \in DOMAIN s.classes[obj.id].attrs
                 THEN Ok(s, s.classes[obj.id].attrs[attr])
            ELSE Raise(s, "AttributeError")
      [] OTHER -> Raise(s, "AttributeError")

\* Python's setattr(obj, attr, value) of a value that is no LoxInstance:
\* None, bool, float and str have no instance dictionary and raise; a
\* LoxFunction or LoxClass (dataclasses, not frozen) takes the attribute.
\* The programs of the model set no dataclass field other than name, and
\* name only to a string.
PySetattr(s, obj, attr, value) ==
    CASE obj.t = "fn" ->
            IF attr = "name" /\ value.t = "str"
            THEN Ok([s EXCEPT !.fns[obj.id].name = value.s], value)
            ELSE Ok([s EXCEPT !.fns[obj.id].attrs = (attr :> value) @@ @], value)
      [] obj.t = "class" ->
            IF attr = "name" /\ value.t = "str"
            THEN Ok([s EXCEPT !.classes[obj.id].name = value.s], value)
            ELSE Ok([s EXCEPT !.classes[obj.id].attrs = (attr :> value) @@ @], value)
      [] OTHER -> Raise(s, "AttributeError")

GetattrEval(node, ctx, s) ==
    LET o == Eval(node.obj, ctx, s)
    IN IF o.sig # "ok" THEN o
       ELSE IF o.v.t = "inst" THEN LoxInstanceGet(o.s, o.v.id, node.attr)
       ELSE PyGetattr(o.s, o.v, node.attr)

SetattrEval(node, ctx, s) ==
    LET o == Eval(node.obj, ctx, s)
        v == Eval(node.value, ctx, o.s)
    IN IF o.sig # "ok" THEN o
       ELSE IF v.sig # "ok" THEN v
       ELSE IF o.v.t = "inst" THEN Ok(LoxInstanceSet(v.s, o.v.id, node.attr, v.v), v.v)
       ELSE PySetattr(v.s, o.v, node.attr, v.v)

ThisEval(node, ctx, s) ==
    IF CtxContains(s, ctx, "this") THEN Ok(s, CtxGetItem(s, ctx, "this"))
    ELSE Raise(s, "UndefinedVariable")

\* Super.eval returning the superclass's method as it is stored, without
\* binding it to the current this
SuperEvalUnbound(node, ctx, s) ==
    LET superclass == CtxGetItem(s, ctx, "super")
        method == get_method(s, superclass.id, node.attr)
    IN IF ~CtxContains(s, ctx, "super") \/ ~CtxContains(s, ctx, "this")
       THEN Raise(s, "UndefinedVariable")
       ELSE IF method = 0 THEN Raise(s, "RuntimeError")
       ELSE Ok(s, FnV(method))

SuperEval(node, ctx, s) ==
    LET superclass == CtxGetItem(s, ctx, "super")
        this == CtxGetItem(s, ctx, "this")
        method == get_method(s, superclass.id, node.attr)
    IN IF ~CtxContains(s, ctx, "super") \/ ~CtxContains(s, ctx, "this")
       THEN Raise(s, "UndefinedVariable")
       ELSE IF method = 0 THEN Raise(s, "RuntimeError")
       ELSE bind(s, method, this)

\* raise LoxReturn(value)
ReturnEval(node, ctx, s) ==
    LET v == Eval(node.expr, ctx, s)
    IN IF v.sig # "ok" THEN v ELSE [s |-> v.s, v |-> v.v, sig |-> "return"]

VarDefEval(node, ctx, s) ==
    LET v == Eval(node.value, ctx, s)
    IN IF v.sig # "ok" THEN v ELSE Ok(CtxVarDef(v.s, ctx, node.name, v.v), v.v)

IfEval(node, ctx, s) ==
    LET c == Eval(node.cond, ctx, s)
    IN IF c.sig # "ok" THEN c
       ELSE IF truthy(c.v) THEN Eval(node.then_branch, ctx, c.s)
       ELSE IF node.else_branch # NoNode THEN Eval(node.else_branch, ctx, c.s)
       ELSE Ok(c.s, Nil)

\* The test of Python's while statement on the condition's value.
WhileTest(value) == PyBool(value)

\* while self.cond.eval(ctx): self.body.eval(ctx).  An iteration takes one
\* unit of fuel; "OutOfFuel" cuts a run longer than the model follows.
WhileEval(node, ctx, s) ==
    LET c == Eval(node.cond, ctx, s)
        b == Eval(node.body, ctx, [c.s EXCEPT !.fuel = @ - 1])
    IN IF c.sig # "ok" THEN c
       ELSE IF ~WhileTest(c.v) THEN Ok(c.s, Nil)
       ELSE IF c.s.fuel = 0 THEN Raise(c.s, "OutOfFuel")
       ELSE IF b.sig # "ok" THEN b
       ELSE WhileEval(node, ctx, b.s)

\* Block.eval running the statements in the enclosing scope
BlockEvalNoPush(node, ctx, s) ==
    LET r == EvalStmts(node.stmts, ctx, s)
    IN IF r.sig # "ok" THEN r ELSE Ok(r.s, Nil)

BlockEval(node, ctx, s) ==
    LET r == EvalStmts(node.stmts, CtxNew(s), CtxPush(s, ctx, EmptyMap))
    IN IF r.sig # "ok" THEN r ELSE Ok(r.s, Nil)

\* Function.eval with the new LoxFunction capturing the global scope
\* instead of the scope of its declaration.
FunctionEvalGlobal(node, ctx, s, register) ==
    LET body_stmts == IF node.body.k = "Block" THEN node.body.stmts ELSE <<node.body>>
        s1 == [s EXCEPT !.fns = Append(@, NewFn(node.name, node.params, body_stmts, 1, FALSE))]
        fn == FnV(Len(s1.fns))
    IN IF register THEN Ok(CtxVarDef(s1, ctx, node.name, fn), fn) ELSE Ok(s1, fn)

\* Function.eval(ctx, register): the result's v is the new LoxFunction.
FunctionEval(node, ctx, s, register) ==
    LET body_stmts == IF node.body.k = "Block" THEN node.body.stmts ELSE <<node.body>>
        s1 == [s EXCEPT !.fns = Append(@, NewFn(node.name, node.params, body_stmts, ctx, FALSE))]
        fn == FnV(Len(s1.fns))
    IN IF register THEN Ok(CtxVarDef(s1, ctx, node.name, fn), fn) ELSE Ok(s1, fn)

\* for method in methods: methods_dict[method.name] = method.eval(method_ctx, register=False)
EvalMethods(methods, method_ctx, s, methods_dict) ==
    IF methods = <<>> THEN Ok(s, methods_dict)
    ELSE LET r == FunctionEval(Head(methods), method_ctx, s, FALSE)
         IN EvalMethods(Tail(methods), method_ctx, r.s,
                        (Head(methods).name :> r.v.id) @@ methods_dict)

ClassEval(node, ctx, s) ==
    LET sup == Eval(node.superclass, ctx, s)
        hasSuper == node.superclass # NoNode
        s0 == IF hasSuper THEN sup.s ELSE s
        base == IF hasSuper THEN sup.v.id ELSE 0
        class_ctx == CtxNew(s0)
        s1 == CtxVarDef(CtxPush(s0, ctx, EmptyMap), class_ctx, node.name, Nil)
        inherited == IF hasSuper THEN s1.classes[base].methods ELSE EmptyMap
        method_ctx == IF hasSuper THEN CtxNew(s1) ELSE class_ctx
        s2 == IF hasSuper THEN CtxPush(s1, class_ctx, "super" :> sup.v) ELSE s1
        m == EvalMethods(node.methods, method_ctx, s2, inherited)
        s3 == [m.s EXCEPT !.classes = Append(@,
                   [name |-> node.name, methods |-> m.v, base |-> base,
                    ctx |-> class_ctx, attrs |-> EmptyMap])]
        klass == ClassV(Len(s3.classes))
        s4 == CtxVarDef(CtxAssign(s3, class_ctx, node.name, klass), ctx, node.name, klass)
    IN IF hasSuper /\ sup.sig # "ok" THEN sup
       ELSE IF hasSuper /\ sup.v.t # "class" THEN Raise(sup.s, "SemanticError")
       ELSE Ok(s4, klass)

AssignEval(node, ctx, s) ==
    LET v == Eval(node.value, ctx, s)
    IN IF v.sig # "ok" THEN v
       ELSE IF ~CtxContains(v.s, ctx, node.name) THEN Raise(v.s, "UndefinedVariable")
       ELSE Ok(CtxAssign(v.s, ctx, node.name, v.v), v.v)

PrintEval(node, ctx, s) ==
    LET v == Eval(node.expr, ctx, s)
    IN IF v.sig # "ok" THEN v ELSE Ok(lox_print(v.s, v.v), v.v)

Eval(node, ctx, s) ==
    CASE node.k = "Literal" -> LiteralEval(node, ctx, s)
      [] node.k = "Var" -> VarEval(node, ctx, s)
      [] node.k = "BinOp" -> BinOpEval(node, ctx, s)
      [] node.k = "And" -> AndEval(node, ctx, s)
      [] node.k = "Or" -> OrEval(node, ctx, s)
      [] node.k = "UnaryOp" -> UnaryOpEval(node, ctx, s)
      [] node.k = "Call" -> CallEval(node, ctx, s)
      [] node.k = "Getattr" -> GetattrEval(node, ctx, s)
      [] node.k = "Setattr" -> SetattrEval(node, ctx, s)
      [] node.k = "This" -> ThisEval(node, ctx, s)
      [] node.k = "Super" -> SuperEval(node, ctx, s)
      [] node.k = "Return" -> ReturnEval(node, ctx, s)
      [] node.k = "VarDef" -> VarDefEval(node, ctx, s)
      [] node.k = "If" -> IfEval(node, ctx, s)
      [] node.k = "While" -> WhileEval(node, ctx, s)
      [] node.k = "Block" -> BlockEval(node, ctx, s)
      [] node.k = "Function" -> FunctionEval(node, ctx, s, TRUE)
      [] node.k = "Class" -> ClassEval(node, ctx, s)
      [] node.k = "Assign" -> AssignEval(node, ctx, s)
      [] node.k = "Print" -> PrintEval(node, ctx, s)

(***************************************************************************)
(* runtime.py: LoxFunction.__call__ and LoxClass.__call__.                 *)
(***************************************************************************)
\* dict(zip(self.args, args)), without strict=True: the shorter of the two
\* lists decides how many parameters are bound.
ZipTruncate(params, args) ==
    LET n == IF Len(params) < Len(args) THEN Len(params) ELSE Len(args)
    IN [ok |-> TRUE,
        env |-> [p \in {params[i] : i \in 1..n} |->
                    args[CHOOSE i \in 1..n :
                            /\ params[i] = p
                            /\ \A j \in 1..n : params[j] = p => j <= i]]]

\* dict(zip(self.args, args, strict=True)): None when the lengths differ
\* (zip raises ValueError), else the scope binding each parameter.
ZipStrict(params, args) ==
    IF Len(params) # Len(args) THEN [ok |-> FALSE, env |-> EmptyMap]
    ELSE [ok |-> TRUE,
          env |-> [n \in {params[i] : i \in 1..Len(params)} |->
                      args[CHOOSE i \in 1..Len(params) :
                              /\ params[i] = n
                              /\ \A j \in 1..Len(params) : params[j] = n => j <= i]]]

\* is_init with 'this' looked up in the call's own scope only
IsInitLocal(s, fid, call_ctx) ==
    /\ s.fns[fid].name = "init"
    /\ s.fns[fid].is_bound_method
    /\ "this" \in DOMAIN s.envs[call_ctx].scope

\* is_init of LoxFunction.__call__
IsInit(s, fid, call_ctx) ==
    /\ s.fns[fid].name = "init"
    /\ s.fns[fid].is_bound_method
    /\ CtxContains(s, call_ctx, "this")

\* LoxFunction.__call__ without the except LoxReturn clause: the signal
\* leaves the call
LoxFunctionCallNoCatch(fid, args, s) ==
    LET z == ZipStrict(s.fns[fid].args, args)
        call_ctx == CtxNew(s)
        s1 == CtxPush([s EXCEPT !.fuel = @ - 1], s.fns[fid].ctx, z.env)
        r == EvalStmts(s.fns[fid].body, call_ctx, s1)
    IN IF ~z.ok THEN Raise(s, "ValueError")
       ELSE IF s.fuel = 0 THEN Raise(s, "OutOfFuel")
       ELSE IF r.sig # "ok" THEN r
       ELSE IF IsInit(s1, fid, call_ctx) THEN Ok(r.s, CtxGetItem(r.s, call_ctx, "this"))
       ELSE Ok(r.s, Nil)

\* A call takes one unit of fuel; "OutOfFuel" cuts a run longer than the
\* model follows.
LoxFunctionCall(fid, args, s) ==
    LET z == ZipStrict(s.fns[fid].args, args)
        call_ctx == CtxNew(s)
        s1 == CtxPush([s EXCEPT !.fuel = @ - 1], s.fns[fid].ctx, z.env)
        is_init == IsInit(s1, fid, call_ctx)
        r == EvalStmts(s.fns[fid].body, call_ctx, s1)
    IN IF ~z.ok THEN Raise(s, "ValueError")
       ELSE IF s.fuel = 0 THEN Raise(s, "OutOfFuel")
       ELSE IF r.sig \notin {"ok", "return"} THEN r
       ELSE IF is_init THEN Ok(r.s, CtxGetItem(r.s, call_ctx, "this"))
       ELSE IF r.sig = "return" THEN Ok(r.s, r.v)
       ELSE Ok(r.s, Nil)

LoxClassCall(cid, args, s) ==
    LET s1 == [s EXCEPT !.insts = Append(@, [klass |-> cid, fields |-> EmptyMap])]
        instance == InstV(Len(s1.insts))
        init_method == get_method(s1, cid, "init")
        bound_init == bind(s1, init_method, instance)
        r == LoxFunctionCall(bound_init.v.id, args, bound_init.s)
    IN IF init_method # 0
       THEN IF r.sig # "ok" THEN r ELSE Ok(r.s, instance)
       ELSE IF args # <<>> THEN Raise(s1, "RuntimeError")
       ELSE Ok(s1, instance)

(***************************************************************************)
(* Validation: every node's validate_self is called with a cursor that     *)
(* knows the node's ancestors.  parents lists them, the nearest first.     *)
(***************************************************************************)
Names(stmts) ==
    [i \in 1..Len(SelectSeq(stmts, LAMBDA st : st.k = "VarDef")) |->
        SelectSeq(stmts, LAMBDA st : st.k = "VarDef")[i].name]

Count(names, name) == Cardinality({i \in 1..Len(names) : names[i] = name})

HasDuplicates(names) == \E i, j \in 1..Len(names) : i # j /\ names[i] = names[j]

ThisValidateSelf(node, parents) ==
    \E i \in 1..Len(parents) : parents[i].k = "Class"

\* The nearest enclosing Class decides: it must have a superclass.
SuperValidateSelf(node, parents) ==
    /\ \E i \in 1..Len(parents) : parents[i].k = "Class"
    /\ LET i == CHOOSE i \in 1..Len(parents) :
                   /\ parents[i].k = "Class"
                   /\ \A j \in 1..(i - 1) : parents[j].k # "Class"
       IN parents[i].superclass # NoNode

ReturnValidateSelf(node, parents) ==
    \E i \in 1..Len(parents) : parents[i].k = "Function"

VarDefValidateSelf(node, parents) ==
    IF parents # <<>> /\ parents[1].k = "Block"
    THEN ~(Count(Names(parents[1].stmts), node.name) > 1)
    ELSE TRUE

BlockValidateSelf(node, parents) == ~HasDuplicates(Names(node.stmts))

FunctionValidateSelf(node, parents) ==
    LET body_stmts == IF node.body.k = "Block" THEN node.body.stmts ELSE <<node.body>>
        var_names == Names(body_stmts)
    IN /\ ~HasDuplicates(node.params)
       /\ \A i \in 1..Len(var_names) :
             \A j \in 1..Len(node.params) : var_names[i] # node.params[j]

\* TRUE when validate_self returns, FALSE when it raises SemanticError
ValidateSelf(node, parents) ==
    CASE node.k = "This" -> ThisValidateSelf(node, parents)
      [] node.k = "Super" -> SuperValidateSelf(node, parents)
      [] node.k = "Return" -> ReturnValidateSelf(node, parents)
      [] node.k = "VarDef" -> VarDefValidateSelf(node, parents)
      [] node.k = "Block" -> BlockValidateSelf(node, parents)
      [] node.k = "Function" -> FunctionValidateSelf(node, parents)
      [] OTHER -> TRUE

Opt(node) == IF node = NoNode THEN <<>> ELSE <<node>>

\* The child nodes of a node: its fields that are nodes or lists of nodes.
Children(node) ==
    CASE node.k = "Program" -> node.stmts
      [] node.k \in {"BinOp", "And", "Or"} -> <<node.left, node.right>>
      [] node.k \in {"UnaryOp", "Assign", "VarDef"} -> <<node.value>>
      [] node.k = "Call" -> <<node.func>> \o node.args
      [] node.k = "Getattr" -> <<node.obj>>
      [] node.k = "Setattr" -> <<node.obj, node.value>>
      [] node.k \in {"Return", "Print"} -> <<node.expr>>
      [] node.k = "If" -> <<node.cond, node.then_branch>> \o Opt(node.else_branch)
      [] node.k = "While" -> <<node.cond, node.body>>
      [] node.k = "Block" -> node.stmts
      [] node.k = "Function" -> <<node.body>>
      [] node.k = "Class" -> Opt(node.superclass) \o node.methods
      [] OTHER -> <<>>

RECURSIVE ValidateTree(_, _)
ValidateTree(node, parents) ==
    /\ ValidateSelf(node, parents)
    /\ \A i \in 1..Len(Children(node)) :
          ValidateTree(Children(node)[i], <<node>> \o parents)

Program(stmts) == [k |-> "Program", stmts |-> stmts]

(***************************************************************************)
(* The programs of the model.                                              *)
(***************************************************************************)
N(n) == Literal(NumV(n))
S(x) == Literal(StrV(x))
NilLit == Literal(Nil)
Fun0(name, stmts) == Function(name, <<>>, Block(stmts))
Call0(name) == Call(Var(name), <<>>)

\* all sequences over the set menu of length at most n
RECURSIVE Tails(_, _)
Tails(menu, n) ==
    IF n = 0 THEN {<<>>}
    ELSE Tails(menu, n - 1) \cup
         {Append(t, m) : t \in {u \in Tails(menu, n - 1) : Len(u) = n - 1}, m \in menu}

\* var a = "global"; { fun show() { print a; } [var a = "block";] show(); }
ShowBlock(shadow) ==
    Block(<<Fun0("show", <<PrintStmt(Var("a"))>>)>>
          \o (IF shadow THEN <<VarDef("a", S("block"))>> ELSE <<>>)
          \o <<Call0("show")>>)
ShowProgs == {<<VarDef("a", S("global")), ShowBlock(b)>> : b \in BOOLEAN}

\* fun f() {} class K {} var c = <cond>; while (c) { print "body"; c = nil; }
CondExprs ==
    {Literal(v) : v \in {Nil, BoolV(FALSE), BoolV(TRUE), NumV(0), NumV(1), StrV(""), StrV("a")}}
    \cup {Var("f"), Var("K"), Call0("K")}
WhileProg(cond) ==
    <<Fun0("f", <<>>), Class("K", NoNode, <<>>), VarDef("c", cond),
      While(Var("c"), Block(<<PrintStmt(S("body")), Assign("c", NilLit)>>))>>
WhileProgs == {WhileProg(e) : e \in CondExprs}

\* <decl x> var x = <x>; <decl y> var y = <y>; var r = x == y;
\* The objects compared: the same or two classes A, functions f, instances.
EqDecls ==
    {<<Class("A", NoNode, <<>>), Var("A")>>,
     <<Fun0("f", <<>>), Var("f")>>,
     <<Class("A", NoNode, <<>>), Call0("A")>>}
EqProg(d, again) ==
    <<d[1], VarDef("x", d[2])>>
    \o (IF again THEN <<d[1], VarDef("y", d[2])>> ELSE <<VarDef("y", Var("x"))>>)
    \o <<VarDef("r", BinOp(Var("x"), Var("y"), "==")), PrintStmt(Var("r"))>>
EqProgs == {EqProg(d, b) : d \in EqDecls, b \in BOOLEAN}

\* fun f() {} class K {} var t = <target>; t.<attr> = "v"; print "after";
TargetExprs ==
    {Literal(v) : v \in {Nil, BoolV(TRUE), NumV(1), StrV("s")}}
    \cup {Var("f"), Var("K"), Call0("K")}
SetProg(target, attr) ==
    <<Fun0("f", <<>>), Class("K", NoNode, <<>>), VarDef("t", target),
      Setattr(Var("t"), attr, S("v")), PrintStmt(S("after"))>>
SetProgs == {SetProg(e, a) : e \in TargetExprs, a \in {"x", "name"}}

\* class Foo { init(a) { <body> } } [class Bar < Foo {}]
\* var i = Foo(<arg1>); var j = i.init(<arg2>);       (Bar() with the subclass)
InitBodies ==
    {<<>>,
     <<Return(NilLit)>>,
     <<Setattr(This, "x", N(1)), If(Var("a"), Return(NilLit), NoNode),
       Setattr(This, "y", N(2))>>,
     <<While(Var("a"), Block(<<Return(NilLit)>>)), Setattr(This, "y", N(2))>>,
     <<Return(N(5))>>,
     <<If(Var("a"), Block(<<Return(Var("a"))>>), NoNode)>>,
     <<Fun0("h", <<Return(N(5))>>), Setattr(This, "h", Var("h"))>>}
InitProg(body, sub, arg1, arg2) ==
    <<Class("Foo", NoNode, <<Function("init", <<"a">>, Block(body))>>)>>
    \o (IF sub THEN <<Class("Bar", Var("Foo"), <<>>)>> ELSE <<>>)
    \o <<VarDef("i", Call(Var(IF sub THEN "Bar" ELSE "Foo"), <<Literal(BoolV(arg1))>>)),
         VarDef("j", Call(Getattr(Var("i"), "init"), <<Literal(BoolV(arg2))>>))>>
InitProgs ==
    {InitProg(b, sub, a1, a2) : b \in InitBodies, sub \in BOOLEAN, a1 \in BOOLEAN, a2 \in BOOLEAN}

\* declarations whose initializer reads the declared name, and some that do not
SelfInitProgs ==
    {<<Block(<<VarDef("a", Var("a"))>>)>>,
     <<VarDef("a", N(1)),
       Block(<<VarDef("a", BinOp(Var("a"), N(1), "+")), PrintStmt(Var("a"))>>)>>,
     <<VarDef("a", N(1)), Fun0("f", <<VarDef("a", Var("a")), PrintStmt(Var("a"))>>),
       Call0("f")>>,
     <<VarDef("a", N(1)), VarDef("a", BinOp(Var("a"), N(1), "+")), PrintStmt(Var("a"))>>,
     <<VarDef("b", N(1)), Block(<<VarDef("a", Var("b")), PrintStmt(Var("a"))>>)>>}

\* print 1; [class B {}] var x = <value>; class A < x {}
SuperclassProgs ==
    {<<PrintStmt(N(1)), Class("B", NoNode, <<>>), VarDef("x", e),
       Class("A", Var("x"), <<>>), PrintStmt(Var("A"))>> :
        e \in {N(1), NilLit, S("s"), Var("B"), Call0("B")}}
    \cup {<<Class("A", N(1), <<>>)>>}

\* var g = 0; fun f(<n params>) { g = 1; print "in"; }
\* class K { init(<n params>) { g = 1; this.x = 1; } }
\* f(<m args>);   or   K(<m args>);
ParamLists == {<<>>, <<"a">>, <<"a", "b">>}
ArgLists == {<<>>, <<N(7)>>, <<N(7), N(8)>>}
ArityProg(params, args, callee) ==
    <<VarDef("g", N(0)),
      Function("f", params, Block(<<Assign("g", N(1)), PrintStmt(S("in"))>>)),
      Class("K", NoNode,
            <<Function("init", params,
                       Block(<<Assign("g", N(1)), Setattr(This, "x", N(1))>>))>>),
      Call(Var(callee), args),
      PrintStmt(Var("g"))>>
ArityProgs ==
    {ArityProg(ps, as, c) : ps \in ParamLists, as \in ArgLists, c \in {"f", "K"}}

\* fun mk() { var i = 0; fun g() { i = i + 1; return i; } return g; }
\* var c = mk(); var d = mk(); then calls print c(); and print d(); in any order
CounterPrefix ==
    <<Fun0("mk", <<VarDef("i", N(0)),
                   Fun0("g", <<Assign("i", BinOp(Var("i"), N(1), "+")), Return(Var("i"))>>),
                   Return(Var("g"))>>),
      VarDef("c", Call0("mk")),
      VarDef("d", Call0("mk"))>>
CounterProgs ==
    {CounterPrefix \o tail :
        tail \in Tails({PrintStmt(Call0("c")), PrintStmt(Call0("d"))}, MaxTail)}

\* class P { init(n) { this.n = n; } bump() { this.n = this.n + 1; return this.n; } }
\* var a = P(10); var b = P(20); var m = a.bump; b.f = m;
\* then print m(); print b.f(); and print a.bump(); in any order
CallAttr(obj, attr) == Call(Getattr(Var(obj), attr), <<>>)
BindPrefix ==
    <<Class("P", NoNode,
            <<Function("init", <<"n">>, Block(<<Setattr(This, "n", Var("n"))>>)),
              Fun0("bump", <<Setattr(This, "n", BinOp(Getattr(This, "n"), N(1), "+")),
                             Return(Getattr(This, "n"))>>)>>),
      VarDef("a", Call(Var("P"), <<N(10)>>)),
      VarDef("b", Call(Var("P"), <<N(20)>>)),
      VarDef("m", Getattr(Var("a"), "bump")),
      Setattr(Var("b"), "f", Var("m"))>>
BindProgs ==
    {BindPrefix \o tail :
        tail \in Tails({PrintStmt(Call0("m")), PrintStmt(CallAttr("b", "f")),
                        PrintStmt(CallAttr("a", "bump"))}, MaxTail)}

\* class A { m() { print "A.m"; return this; } }
\* class B < A { m() { print "B.m"; return super.<name>(); } }
\* class C < B { [m() { print "C.m"; return super.m(); }] }
\* var o = <B or C>(); var r = o.m();
SuperProg(name, override, klass) ==
    <<Class("A", NoNode, <<Fun0("m", <<PrintStmt(S("A.m")), Return(This)>>)>>),
      Class("B", Var("A"),
            <<Fun0("m", <<PrintStmt(S("B.m")), Return(Call(Super(name), <<>>))>>)>>),
      Class("C", Var("B"),
            IF override
            THEN <<Fun0("m", <<PrintStmt(S("C.m")), Return(Call(Super("m"), <<>>))>>)>>
            ELSE <<>>),
      VarDef("o", Call0(klass)),
      VarDef("r", CallAttr("o", "m"))>>
SuperProgs ==
    {SuperProg(n, ov, k) : n \in {"m", "nope"}, ov \in BOOLEAN, k \in {"B", "C"}}

\* class A { n() { return "A.n"; } o() { return "A.o"; } }
\* class B < A { n() { return "B.n"; } }
\* var b = B(); [b.n = "field";] var r = <access>;
GetAccesses ==
    {Getattr(Var("b"), "n"), CallAttr("b", "n"), CallAttr("b", "o"),
     Getattr(Var("b"), "zz")}
GetProg(field, access) ==
    <<Class("A", NoNode, <<Fun0("n", <<Return(S("A.n"))>>), Fun0("o", <<Return(S("A.o"))>>)>>),
      Class("B", Var("A"), <<Fun0("n", <<Return(S("B.n"))>>)>>),
      VarDef("b", Call0("B"))>>
    \o (IF field THEN <<Setattr(Var("b"), "n", S("field"))>> ELSE <<>>)
    \o <<VarDef("r", access)>>
GetProgs == {GetProg(f, a) : f \in BOOLEAN, a \in GetAccesses}

\* var n = 0; fun R() { n = n + 1; return <rv>; } var r = <L> and R();
\* and the same with or
LogicOperands == {Nil, BoolV(FALSE), BoolV(TRUE), NumV(0), StrV(""), NumV(1), StrV("s")}
LogicResults == {Nil, BoolV(FALSE), NumV(0), StrV("r")}
LogicProg(isAnd, l, rv) ==
    <<VarDef("n", N(0)),
      Fun0("R", <<Assign("n", BinOp(Var("n"), N(1), "+")), Return(Literal(rv))>>),
      VarDef("r", IF isAnd THEN And(Literal(l), Call0("R")) ELSE Or(Literal(l), Call0("R")))>>
LogicProgs ==
    {LogicProg(a, l, rv) : a \in BOOLEAN, l \in LogicOperands, rv \in LogicResults}

\* var a = 1; { <up to MaxTail of: var a = 2; a = 3; var b = 4;> print a; }
\* print a; [print b;]
BlockMenu == {VarDef("a", N(2)), Assign("a", N(3)), VarDef("b", N(4))}
BlockProg(inner, last) ==
    <<VarDef("a", N(1)), Block(inner \o <<PrintStmt(Var("a"))>>), PrintStmt(Var("a"))>> \o last
BlockProgs ==
    {BlockProg(inner, last) :
        inner \in Tails(BlockMenu, MaxTail), last \in {<<>>, <<PrintStmt(Var("b"))>>}}

\* fun inner(x) { var l = "theirs"; print "in"; <nest>; print "after"; }
\* fun outer(x) { var l = "mine"; var r = inner(x); print "outer"; print l;
\*                return r; print "dead"; }
\* var res = outer(<x>); print "top";
\* where <nest> is nothing or return "v"; directly, in a block, in a block
\* in an if (x), or in an if in a while (x)
ReturnNests ==
    {<<>>,
     <<Return(S("v"))>>,
     <<Block(<<Return(S("v"))>>)>>,
     <<If(Var("x"), Block(<<Block(<<Return(S("v"))>>)>>), NoNode)>>,
     <<While(Var("x"), Block(<<If(Var("x"), Return(S("v")), NoNode)>>))>>}
ReturnProg(nest, x) ==
    <<Function("inner", <<"x">>,
               Block(<<VarDef("l", S("theirs")), PrintStmt(S("in"))>> \o nest
                     \o <<PrintStmt(S("after"))>>)),
      Function("outer", <<"x">>,
               Block(<<VarDef("l", S("mine")),
                       VarDef("r", Call(Var("inner"), <<Var("x")>>)),
                       PrintStmt(S("outer")), PrintStmt(Var("l")),
                       Return(Var("r")), PrintStmt(S("dead"))>>)),
      VarDef("res", Call(Var("outer"), <<Literal(x)>>)),
      PrintStmt(S("top"))>>
ReturnProgs == {ReturnProg(nest, x) : nest \in ReturnNests, x \in {BoolV(TRUE), BoolV(FALSE)}}

\* two declarations, the first of a, the second of a or c, each a var, a
\* fun or a class; either at top level or in a block followed by print "ran";
Decl(kind, name, tag) ==
    CASE kind = "var" -> VarDef(name, N(tag))
      [] kind = "fun" -> Fun0(name, <<Return(N(tag))>>)
      [] kind = "class" -> Class(name, NoNode, <<>>)
DeclKinds == {"var", "fun", "class"}
DupProg(inBlock, d1, d2) ==
    IF inBlock THEN <<Block(<<d1, d2>>), PrintStmt(S("ran"))>> ELSE <<d1, d2>>
DupProgs ==
    {DupProg(b, Decl(k1, "a", 1), Decl(k2, n2, 2)) :
        b \in BOOLEAN, k1 \in DeclKinds, k2 \in DeclKinds, n2 \in {"a", "c"}}

\* fun t(tag, v) { print tag; return v; }
\* fun f(x, y) { print "body"; return x; }
\* class K {} var k = K();
\* and then one of
\*   var r = t("L", <l>) <op> t("R", <r>);
\*   var r = t("callee", <f or 1>)(t("a1", 1)[, t("a2", 2)]);
\*   t("obj", <k or nil>).x = t("val", 1);
Traced(tag, e) == Call(Var("t"), <<S(tag), e>>)
OrderPrefix ==
    <<Function("t", <<"tag", "v">>, Block(<<PrintStmt(Var("tag")), Return(Var("v"))>>)),
      Function("f", <<"x", "y">>, Block(<<PrintStmt(S("body")), Return(Var("x"))>>)),
      Class("K", NoNode, <<>>),
      VarDef("k", Call0("K"))>>
OrderBinOps ==
    {VarDef("r", BinOp(Traced("L", l), Traced("R", r), op)) :
        l \in {N(1), S("s")}, r \in {N(2), S("s"), NilLit}, op \in {"+", "<"}}
OrderCalls ==
    {VarDef("r", Call(Traced("callee", c), args)) :
        c \in {Var("f"), N(1)},
        args \in {<<Traced("a1", N(1))>>, <<Traced("a1", N(1)), Traced("a2", N(2))>>}}
OrderSets ==
    {Setattr(Traced("obj", o), "x", Traced("val", N(1))) : o \in {Var("k"), NilLit}}
OrderProgs == {OrderPrefix \o <<st>> : st \in OrderBinOps \cup OrderCalls \cup OrderSets}

\* class A { m() { return A; } } var a = A(); [A = <v>;] var r = a.m();
\* at top level, or with r declared globally and the rest in a block
ClassCtxBody(assign) ==
    <<Class("A", NoNode, <<Fun0("m", <<Return(Var("A"))>>)>>), VarDef("a", Call0("A"))>>
    \o assign
ClassCtxProg(assign, inBlock) ==
    IF inBlock
    THEN <<VarDef("r", NilLit),
           Block(ClassCtxBody(assign) \o <<Assign("r", CallAttr("a", "m"))>>)>>
    ELSE ClassCtxBody(assign) \o <<VarDef("r", CallAttr("a", "m"))>>
ClassCtxProgs ==
    {ClassCtxProg(assign, b) :
        assign \in {<<>>, <<Assign("A", N(1))>>, <<Assign("A", S("x"))>>, <<Assign("A", NilLit)>>},
        b \in BOOLEAN}

\* class K { m() { return 1; } } var i = K(); var j = K();
\* then up to MaxTail of: i.f = 1; i.f = 2; j.f = 3; print i.f; print j.f;
FieldPrefix ==
    <<Class("K", NoNode, <<Fun0("m", <<Return(N(1))>>)>>),
      VarDef("i", Call0("K")),
      VarDef("j", Call0("K"))>>
FieldMenu ==
    {Setattr(Var("i"), "f", N(1)), Setattr(Var("i"), "f", N(2)), Setattr(Var("j"), "f", N(3)),
     PrintStmt(Getattr(Var("i"), "f")), PrintStmt(Getattr(Var("j"), "f"))}
FieldProgs == {FieldPrefix \o tail : tail \in Tails(FieldMenu, MaxTail)}

Programs ==
    ShowProgs \cup WhileProgs \cup EqProgs \cup SetProgs \cup InitProgs
    \cup SelfInitProgs \cup SuperclassProgs \cup ArityProgs \cup CounterProgs
    \cup BindProgs
    \cup SuperProgs
    \cup GetProgs
    \cup LogicProgs
    \cup BlockProgs
    \cup ReturnProgs
    \cup DupProgs
    \cup OrderProgs
    \cup ClassCtxProgs
    \cup FieldProgs

(***************************************************************************)
(* The run of a program: validation, then Program.eval, one statement of   *)
(* its loop at a time.                                                     *)
(***************************************************************************)
Store == [envs |-> envs, fns |-> fns, classes |-> classes, insts |-> insts,
          out |-> out, fuel |-> MaxFuel]

Init ==
    /\ prog \in Programs
    /\ phase = "validate"
    /\ pc = 1
    /\ envs = <<[scope |-> EmptyMap, parent |-> 0]>>
    /\ fns = <<>>
    /\ classes = <<>>
    /\ insts = <<>>
    /\ out = <<>>
    /\ exc = "none"

Validate ==
    /\ phase = "validate"
    /\ IF ValidateTree(Program(prog), <<>>)
       THEN phase' = "run" /\ exc' = exc
       ELSE phase' = "semantic_error" /\ exc' = "SemanticError"
    /\ UNCHANGED <<prog, pc, envs, fns, classes, insts, out>>

\* One iteration of Program.eval's loop; an exception (or a LoxReturn that
\* no call catches) ends the run, with the effects made so far.
ProgramEval ==
    /\ phase = "run"
    /\ pc <= Len(prog)
    /\ LET r == Eval(prog[pc], 1, Store)
       IN /\ envs' = r.s.envs
          /\ fns' = r.s.fns
          /\ classes' = r.s.classes
          /\ insts' = r.s.insts
          /\ out' = r.s.out
          /\ IF r.sig = "ok"
             THEN /\ pc' = pc + 1
                  /\ phase' = IF pc = Len(prog) THEN "done" ELSE "run"
                  /\ exc' = exc
             ELSE /\ pc' = pc
                  /\ phase' = IF r.sig = "OutOfFuel" THEN "cut" ELSE "runtime_error"
                  /\ exc' = IF r.sig = "return" THEN "LoxReturn" ELSE r.sig
    /\ UNCHANGED prog

Next == Validate \/ ProgramEval

Spec == Init /\ [][Next]_vars

\* the value bound to name in the global scope
Global(name) == envs[1].scope[name]
Finished == phase \in {"done", "semantic_error", "runtime_error"}

(***************************************************************************)
(* The claims.                                                             *)
(***************************************************************************)

\* C1: variable references are lexically scoped: a `var a` declared in the
\* block after the declaration of show does not change the binding show
\* reads, so every program of ShowProgs prints "global".
C1_LexicalScope ==
    (phase = "done" /\ prog \in ShowProgs) => out = <<"global">>

\* about to execute the loop of a program of WhileProgs
AtWhile == phase = "run" /\ prog \in WhileProgs /\ prog[pc].k = "While"

\* C2: a While statement runs its body exactly when the condition's value
\* is Lox-truthy: from a state about to execute the loop of WhileProgs on
\* the value of c, the body's line is printed iff that value is truthy.
C2_WhileTruthy ==
    [][AtWhile => ((out' = <<"body">>) <=> truthy(Global("c")))]_vars

\* C3: == on object values is reference identity: the r of EqProgs, the
\* value of x == y, is true iff x and y are the same object.
C3_ObjectIdentity ==
    (phase = "done" /\ prog \in EqProgs) =>
        Global("r") = BoolV(Global("x") = Global("y"))

\* about to execute the Set of a program of SetProgs on a target that is no
\* instance
AtSetNonInstance ==
    /\ phase = "run" /\ prog \in SetProgs /\ prog[pc].k = "Setattr"
    /\ Global("t").t # "inst"

\* C4: a Set on a value that is no instance fails and leaves the target as
\* it was.
C4_SetNonInstanceFails ==
    [][AtSetNonInstance =>
          (phase' = "runtime_error" /\ fns' = fns /\ classes' = classes)]_vars

\* node holds a Return with a value in the body of a method named init
\* (inInit: node is in such a body, and in no function nested in it)
RECURSIVE ReturnsValueIn(_, _)
ReturnsValueIn(node, inInit) ==
    IF node.k = "Return" THEN inInit /\ node.expr # NilLit
    ELSE \E i \in 1..Len(Children(node)) :
            ReturnsValueIn(Children(node)[i],
                           IF Children(node)[i].k = "Function"
                           THEN node.k = "Class" /\ Children(node)[i].name = "init"
                           ELSE inInit)

\* C5: validation rejects every `return <value>;` inside a method named
\* init and accepts a bare `return;` there: a program of InitProgs is
\* rejected iff its init returns a value.
C5_InitValueReturnRejected ==
    (phase # "validate" /\ prog \in InitProgs) =>
        ((phase = "semantic_error") <=> ReturnsValueIn(Program(prog), FALSE))

\* node reads the variable name
RECURSIVE Reads(_, _)
Reads(node, name) ==
    \/ node = Var(name)
    \/ \E i \in 1..Len(Children(node)) : Reads(Children(node)[i], name)
\* node holds a VarDef in a block or function body whose initializer reads
\* the declared name
RECURSIVE DeclaresFromItself(_, _)
DeclaresFromItself(node, local) ==
    \/ node.k = "VarDef" /\ local /\ Reads(node.value, node.name)
    \/ \E i \in 1..Len(Children(node)) :
          DeclaresFromItself(Children(node)[i], local \/ node.k \in {"Block", "Function"})

\* C6: validation rejects a variable declaration in a local scope whose
\* initializer reads the name being declared.
C6_OwnInitializerRejected ==
    (phase # "validate" /\ prog \in SelfInitProgs
         /\ DeclaresFromItself(Program(prog), FALSE)) =>
        phase = "semantic_error"

\* a statement of the program has run, or printed
ExecutionStarted == pc > 1 \/ out # <<>>

\* C7: a SemanticError is raised only before execution begins: once a
\* statement has run or a line is printed, none is raised.
C7_SemanticErrorBeforeRun == ExecutionStarted => exc # "SemanticError"

\* C8: a class's init bound to an instance i returns i, whatever path its
\* body takes, when called by construction and when called as i.init():
\* in every program of InitProgs (init falls off its end, returns bare at
\* its top, inside an if or inside a while, or returns a value; own or
\* inherited init) i is the new instance and j, the value of i.init(), is i.
C8_InitReturnsInstance ==
    (phase = "done" /\ prog \in InitProgs) =>
        /\ Global("i") = InstV(1)
        /\ Global("j") = Global("i")

C8_Witness ==
    /\ phase = "done" /\ prog \in InitProgs
    /\ ~ReturnsValueIn(Program(prog), FALSE)
    /\ Global("j") = InstV(1)
    /\ "y" \in DOMAIN insts[1].fields

\* about to execute the call of a program of ArityProgs; the parameters of
\* the function called, or of the init of the class called
AtCall == phase = "run" /\ prog \in ArityProgs /\ prog[pc].k = "Call"
CalleeParams ==
    IF Global(prog[pc].func.name).t = "fn"
    THEN fns[Global(prog[pc].func.name).id].args
    ELSE fns[get_method(Store, Global(prog[pc].func.name).id, "init")].args

\* C9: a call with a number of arguments other than the number of declared
\* parameters fails before any statement of the body runs: nothing is
\* printed, no binding of a scope that existed changes, no field is set.
C9_ArityMismatchFails ==
    [][(AtCall /\ Len(prog[pc].args) # Len(CalleeParams)) =>
          /\ phase' = "runtime_error"
          /\ exc' = "ValueError"
          /\ out' = out
          /\ SubSeq(envs', 1, Len(envs)) = envs
          /\ \A i \in 1..Len(insts') : insts'[i].fields = EmptyMap]_vars

C9_Witness ==
    /\ prog \in ArityProgs /\ phase = "runtime_error" /\ exc = "ValueError"
    /\ Global("g") = NumV(0)
    /\ Len(insts) = 1

\* C10: the calls of one closure share the variable of its captured scope
\* and every call of mk makes a new one: in CounterProgs the k-th call of c
\* prints k and the k-th call of d prints k, in whatever order the calls of
\* c and d come.
C10_ClosureCounters ==
    prog \in CounterProgs =>
        /\ phase \in {"validate", "run", "done"}
        /\ out = [j \in 1..(pc - 4) |->
                     ToString(Cardinality({k \in 4..(j + 3) : prog[k] = prog[j + 3]}))]

C10_Witness ==
    /\ prog \in CounterProgs /\ phase = "done"
    /\ out = <<"1", "1", "2">>

\* C11: a method read from an instance keeps this bound to that instance:
\* in BindProgs the calls m(), b.f() (the method of a stored as a field of
\* b) and a.bump() all increment and return the n of a, in whatever order
\* they come, and the n of b stays 20.
C11_BoundMethodKeepsThis ==
    prog \in BindProgs =>
        /\ phase \in {"validate", "run", "done"}
        /\ out = [j \in 1..(pc - 6) |-> ToString(10 + j)]
        /\ pc > 3 => insts[2].fields["n"] = NumV(20)
        /\ pc > 5 => insts[1].fields["n"] = NumV(10 + (pc - 6))

C11_Witness ==
    /\ prog \in BindProgs /\ phase = "done" /\ Len(prog) = 8
    /\ prog[6] = PrintStmt(CallAttr("b", "f"))
    /\ prog[7] = PrintStmt(Call0("m"))
    /\ out = <<"11", "12", "13">>

\* the lines a program of SuperProgs prints when every super access succeeds
SuperOut(p) ==
    (IF p[3].methods # <<>> /\ p[4].value.func.name = "C" THEN <<"C.m">> ELSE <<>>)
    \o <<"B.m">>
    \o (IF p[2].methods[1].body.stmts[2].expr.func.attr = "m" THEN <<"A.m">> ELSE <<>>)

\* C12: super.m in a method of B < A resolves to A's method bound to the
\* receiver, whatever the receiver's class: o.m() on an instance of B or of
\* C < B (overriding m or not) runs B.m once and then A.m, which returns the
\* receiver; when A has no method of that name the access fails after B.m
\* has printed.
C12_SuperResolvesToBase ==
    (prog \in SuperProgs /\ phase \notin {"validate", "run"}) =>
        IF prog[2].methods[1].body.stmts[2].expr.func.attr = "m"
        THEN /\ phase = "done"
             /\ out = SuperOut(prog)
             /\ Global("o") = InstV(1)
             /\ Global("r") = Global("o")
        ELSE /\ phase = "runtime_error"
             /\ exc = "RuntimeError"
             /\ pc = 5
             /\ out = SuperOut(prog)

C12_Witness ==
    /\ prog \in SuperProgs /\ phase = "done"
    /\ out = <<"C.m", "B.m", "A.m">>
    /\ classes[insts[1].klass].name = "C"
    /\ Global("r") = InstV(1)

\* the access of the last statement of a program of GetProgs, and whether
\* the program has set the field n
GetAccess(p) == p[Len(p)].value
GetHasField(p) == Len(p) = 5

\* C13: reading a property of an instance takes a field first, then a
\* method of the class (its own before its base's), and fails otherwise:
\* in GetProgs b.n is the field once it is set and else B's method n bound
\* to b (so b.n() is "B.n", never "A.n"), b.o() is the inherited "A.o", and
\* b.zz ends the run with an error and leaves r undefined.
C13_GetFieldsThenMethods ==
    (prog \in GetProgs /\ phase \notin {"validate", "run"}) =>
        CASE GetAccess(prog) = Getattr(Var("b"), "n") ->
                /\ phase = "done"
                /\ IF GetHasField(prog) THEN Global("r") = StrV("field")
                   ELSE /\ Global("r").t = "fn"
                        /\ fns[Global("r").id].body = prog[2].methods[1].body.stmts
                        /\ envs[fns[Global("r").id].ctx].scope["this"] = Global("b")
          [] GetAccess(prog) = CallAttr("b", "n") ->
                IF GetHasField(prog) THEN phase = "runtime_error" /\ exc = "TypeError"
                ELSE phase = "done" /\ Global("r") = StrV("B.n")
          [] GetAccess(prog) = CallAttr("b", "o") ->
                phase = "done" /\ Global("r") = StrV("A.o")
          [] GetAccess(prog) = Getattr(Var("b"), "zz") ->
                /\ phase = "runtime_error"
                /\ exc = "AttributeError"
                /\ "r" \notin DOMAIN envs[1].scope

C13_Witness ==
    /\ prog \in GetProgs /\ phase = "done"
    /\ GetHasField(prog)
    /\ GetAccess(prog) = Getattr(Var("b"), "n")
    /\ Global("r") = StrV("field")
    /\ get_method(Store, insts[1].klass, "n") # 0

\* Lox's falsy values: nil and false
LoxFalsy(v) == v = Nil \/ v = BoolV(FALSE)

\* whether the logical expression of a program of LogicProgs must skip its
\* right operand
LogicSkips(p) ==
    IF p[3].value.k = "And" THEN LoxFalsy(p[3].value.left.value)
    ELSE ~LoxFalsy(p[3].value.left.value)

\* C14: L and R is the value of L, with R not evaluated, when L is falsy;
\* L or R is the value of L, with R not evaluated, when L is truthy;
\* otherwise the result is the value of R.  R() increments n, so n counts
\* the evaluations of R.
C14_ShortCircuit ==
    (prog \in LogicProgs /\ phase \notin {"validate", "run"}) =>
        /\ phase = "done"
        /\ Global("r") = IF LogicSkips(prog) THEN prog[3].value.left.value
                         ELSE prog[2].body.stmts[2].expr.value
        /\ Global("n") = NumV(IF LogicSkips(prog) THEN 0 ELSE 1)

C14_Witness ==
    /\ prog \in LogicProgs /\ phase = "done"
    /\ prog[3].value.k = "And"
    /\ prog[3].value.left.value = Nil
    /\ Global("r") = Nil
    /\ Global("n") = NumV(0)

\* the statements of the block of a program of BlockProgs before its print
BlockInner(p) == SubSeq(p[2].stmts, 1, Len(p[2].stmts) - 1)

\* the position of the block's first var a, or one past the end
FirstDecl(st) ==
    IF \E i \in 1..Len(st) : st[i] = VarDef("a", N(2))
    THEN CHOOSE i \in 1..Len(st) :
            /\ st[i] = VarDef("a", N(2))
            /\ \A j \in 1..(i - 1) : st[j] # VarDef("a", N(2))
    ELSE Len(st) + 1

\* the global a after the block: 3 when the block assigns a before it
\* declares its own a, else still 1
OuterAfter(st) ==
    IF \E i \in 1..(FirstDecl(st) - 1) : st[i] = Assign("a", N(3)) THEN 3 ELSE 1

\* the a the block's print sees: the block's own a when it declared one
InnerAtEnd(st) ==
    IF FirstDecl(st) > Len(st) THEN OuterAfter(st)
    ELSE IF \E i \in (FirstDecl(st) + 1)..Len(st) : st[i] = Assign("a", N(3)) THEN 3
    ELSE 2

\* C15: a block runs in a scope of its own: var a inside shadows the
\* global a and never overwrites it, an assignment a = 3 reaches the global a
\* only while the block has no a of its own, and after the block its names
\* (b) are undefined.
C15_BlockScope ==
    (prog \in BlockProgs /\ phase \notin {"validate", "semantic_error"} /\ pc > 2) =>
        /\ Global("a") = NumV(OuterAfter(BlockInner(prog)))
        /\ "b" \notin DOMAIN envs[1].scope
        /\ out[1] = ToString(InnerAtEnd(BlockInner(prog)))
        /\ pc > 3 => out[2] = ToString(OuterAfter(BlockInner(prog)))
        /\ IF Len(prog) = 4
           THEN \/ phase = "run"
                \/ phase = "runtime_error" /\ exc = "UndefinedVariable" /\ pc = 4
           ELSE phase \in {"run", "done"}

C15_Witness ==
    /\ prog \in BlockProgs /\ phase = "runtime_error" /\ exc = "UndefinedVariable"
    /\ BlockInner(prog) = <<Assign("a", N(3)), VarDef("a", N(2)), VarDef("b", N(4))>>
    /\ out = <<"2", "3">>
    /\ Global("a") = NumV(3)

\* whether the return of inner's body is reached for the argument x
ReturnTaken(p) ==
    LET nest == SubSeq(p[1].body.stmts, 3, Len(p[1].body.stmts) - 1)
    IN /\ nest # <<>>
       /\ nest[1].k \in {"If", "While"} => p[3].value.args[1].value = BoolV(TRUE)

\* C16: a return inside blocks, ifs and whiles of inner ends the call of
\* inner only: "after" is not printed, inner(x) is "v" (nil when no return
\* is reached, and then "after" is printed), and outer goes on with its own
\* statements and its own l up to its own return.
C16_ReturnEndsInnermostCall ==
    (prog \in ReturnProgs /\ phase \notin {"validate", "run"}) =>
        /\ phase = "done"
        /\ out = <<"in">> \o (IF ReturnTaken(prog) THEN <<>> ELSE <<"after">>)
                 \o <<"outer", "mine", "top">>
        /\ Global("res") = IF ReturnTaken(prog) THEN StrV("v") ELSE Nil

C16_Witness ==
    /\ prog \in ReturnProgs /\ phase = "done"
    /\ prog[1].body.stmts[3].k = "While"
    /\ out = <<"in", "outer", "mine", "top">>
    /\ Global("res") = StrV("v")

\* whether a program of DupProgs declares in a block, and its two
\* declarations
DupInBlock(p) == p[1].k = "Block"
DupDecls(p) == IF DupInBlock(p) THEN p[1].stmts ELSE p

\* whether the global named name holds what the declaration d defines
HoldsDecl(name, d) ==
    /\ name \in DOMAIN envs[1].scope
    /\ CASE d.k = "VarDef" -> Global(name) = d.value.value
         [] d.k = "Function" ->
                Global(name).t = "fn" /\ fns[Global(name).id].body = d.body.stmts
         [] d.k = "Class" -> Global(name) = ClassV(Len(classes))

\* C17: a block declaring the same name twice (by var, fun or class) is
\* rejected with SemanticError before it runs, while the same two
\* declarations at top level are accepted and leave the name with the
\* second definition.
C17_DuplicateDeclarationRejected ==
    prog \in DupProgs =>
        IF DupInBlock(prog)
        THEN DupDecls(prog)[1].name = DupDecls(prog)[2].name
                => phase \in {"validate", "semantic_error"}
        ELSE /\ phase \in {"validate", "run", "done"}
             /\ phase = "done" => HoldsDecl(DupDecls(prog)[2].name, DupDecls(prog)[2])

\* whether the operator of a program of OrderProgs accepts its operands
BinOpAccepts(e) ==
    LET l == e.left.args[2].value
        r == e.right.args[2].value
    IN \/ l.t = "num" /\ r.t = "num"
       \/ e.op = "+" /\ l.t = "str" /\ r.t = "str"

\* C18: evaluation goes left to right, and an operation acts only after
\* all its operands: an operator is applied, or refused, after L and R have
\* both printed; a call evaluates the callee, then every argument in order,
\* and only then runs the body or fails; a property assignment evaluates the
\* object, then the value, and only then stores or fails.
C18_LeftToRight ==
    (prog \in OrderProgs /\ phase \notin {"validate", "run"}) =>
        LET st == prog[5]
        IN CASE st \in OrderBinOps ->
                   /\ out = <<"L", "R">>
                   /\ phase = IF BinOpAccepts(st.value) THEN "done" ELSE "runtime_error"
             [] st \in OrderCalls ->
                   /\ out = [i \in 1..(1 + Len(st.value.args)) |->
                               IF i = 1 THEN "callee" ELSE st.value.args[i - 1].args[1].value.s]
                            \o (IF phase = "done" THEN <<"body">> ELSE <<>>)
                   /\ phase = IF st.value.func.args[2] = Var("f") /\ Len(st.value.args) = 2
                              THEN "done" ELSE "runtime_error"
             [] st \in OrderSets ->
                   /\ out = <<"obj", "val">>
                   /\ IF st.obj.args[2] = Var("k")
                      THEN phase = "done" /\ insts[1].fields = ("x" :> NumV(1))
                      ELSE phase = "runtime_error"

C18_Witness ==
    /\ prog \in OrderProgs /\ phase = "runtime_error"
    /\ prog[5] \in OrderBinOps
    /\ prog[5].value.left.args[2] = N(1)
    /\ prog[5].value.right.args[2] = S("s")
    /\ out = <<"L", "R">>

\* the statements A = <v> of a program of ClassCtxProgs
Reassignments(p) ==
    SelectSeq(IF p[1].k = "VarDef" THEN p[2].stmts ELSE p, LAMBDA st : st.k = "Assign" /\ st.name = "A")

\* C19: a method reading its own class's name reads the binding of the
\* scope the class statement ran in, so once A has been reassigned there a
\* later a.m() yields the new value.
C19_MethodSeesReassignedName ==
    (prog \in ClassCtxProgs /\ phase = "done" /\ Reassignments(prog) # <<>>) =>
        Global("r") = Reassignments(prog)[1].value.value

\* the positions up to upto where a program of FieldProgs sets f on the
\* instance named inst, and the fields that instance must then have
SetsOn(p, inst, upto) ==
    {k \in 4..upto : p[k].k = "Setattr" /\ p[k].obj.name = inst}
FieldsAfter(p, inst, upto) ==
    IF SetsOn(p, inst, upto) = {} THEN EmptyMap
    ELSE "f" :> p[CHOOSE k \in SetsOn(p, inst, upto) :
                    \A l \in SetsOn(p, inst, upto) : l <= k].value.value

\* the lines printed by the statements up to upto
FieldReads(p, upto) == {k \in 4..upto : p[k].k = "Print"}
FieldOut(p, upto) ==
    [n \in 1..Cardinality(FieldReads(p, upto)) |->
        LET k == CHOOSE k \in FieldReads(p, upto) : Cardinality(FieldReads(p, k)) = n
        IN ToString(FieldsAfter(p, p[k].expr.obj.name, k)["f"].n)]

\* C20: each instance has a field map of its own, empty at construction;
\* reading f on an instance gives the value last set on that instance,
\* whatever was set on the other instance of the class, reading before any
\* set on it fails, and the class's methods stay as declared.
C20_FieldsPerInstance ==
    (prog \in FieldProgs /\ phase # "validate") =>
        /\ pc > 2 => insts[1].fields = FieldsAfter(prog, "i", pc - 1)
        /\ pc > 3 => insts[2].fields = FieldsAfter(prog, "j", pc - 1)
        /\ pc > 1 => /\ DOMAIN classes[1].methods = {"m"}
                     /\ fns[classes[1].methods["m"]].body = prog[1].methods[1].body.stmts
        /\ out = FieldOut(prog, pc - 1)
        /\ phase \in {"run", "done", "runtime_error"}
        /\ phase = "runtime_error" =>
              /\ exc = "AttributeError"
              /\ prog[pc].k = "Print"
              /\ FieldsAfter(prog, prog[pc].expr.obj.name, pc) = EmptyMap

C20_Witness ==
    /\ prog \in FieldProgs /\ phase = "done" /\ Len(prog) = 6
    /\ prog[4] = Setattr(Var("i"), "f", N(2))
    /\ prog[5] = Setattr(Var("j"), "f", N(3))
    /\ prog[6] = PrintStmt(Getattr(Var("i"), "f"))
    /\ out = <<"2">>
    /\ insts[2].fields = ("f" :> NumV(3))

====
